---------------------------- MODULE Spec2Model ----------------------------
(***************************************************************************)
(* Model of hydraulic/profile.py: WaterSection (wetted section of a        *)
(* polyline at a water level), Calculation (flow coefficient, velocity,    *)
(* discharge) and Morfostvor: __post_init__, the checks of read_xls,       *)
(* calculate() (the level-stepping loop that builds the rating table) and  *)
(* get_prob_table() (the levels of the target discharges) and             *)
(* get_sectors_result() (the sectors' values at the design level).         *)
(*                                                                         *)
(* Numbers.  Python floats are modelled by integers in fixed units:        *)
(*   coordinates, elevations, water levels, widths   millimetres           *)
(*   areas (F)                                        mm^2                  *)
(*   depths (Hср, h, Hмакс)                           1e-5 m                *)
(*   velocities (V)                                   1e-4 m/s              *)
(*   discharges (Q)                                   1e-8 m^3/s            *)
(*   roughness n                                      1e-3                  *)
(*   slope i                                          promille              *)
(*   the level step Morfostvor.dH                     centimetres           *)
(* The profiles are chosen so that every interpolated boundary is an       *)
(* integer number of millimetres, so the geometry is exact.                *)
(***************************************************************************)
EXTENDS Integers, Sequences, FiniteSets, TLC

VARIABLES
    x,                  \* Morfostvor.x: x coordinates of the profile vertices
    y,                  \* Morfostvor.y: elevations of the profile vertices
    sectors,            \* Morfostvor.sectors: sequence of ProfileSector
    dH,                 \* Morfostvor.dH (cm): [kind |-> "str" or "num", value]
    probability,        \* Morfostvor.probability: sequence of <<label, Q>>
    OVERFLOW,           \* config.OVERFLOW
    CALC_TYPE,          \* config.CALC_TYPE
    pc,                 \* position of the run: "new" (before
                        \* Morfostvor.__post_init__), "constructed" (before
                        \* the checks of read_xls), "start", "loop", "filled"
                        \* (calculate()); "exit0", "exit1", "exit2": ended by
                        \* sys.exit with that status; "declined": ended by
                        \* the operator at a warning; "error": ended by an
                        \* exception of the fill; "domain_error",
                        \* "interp_error": ended by an exception of an
                        \* interpolation (get_prob_table,
                        \* get_sectors_result);
                        \* "ws_start", "ws_done": specification SpecWS;
                        \* "calc_start", "calc_done": specification SpecCalc
    fatal,              \* history: the class of the error that ended the run
                        \* ("level", "config", "input"), "" while none has
    step,               \* local dH of calculate(): the level step (mm)
    water_level,        \* local water_level of calculate()
    consumption_summ,   \* local consumption_summ
    consumption_check,  \* local consumption_check
    min_sector,         \* get_min_sector()[0]: list index of the lowest sector
    calc_sectors,       \* local calc_sectors: indices of the active sectors
    df,                 \* the rows of the rating table, in the order appended
    n,                  \* local n: number of level steps done
    hist,               \* history, one entry per row of df: the list index of
                        \* the sector (-1: aggregate), the step n and the
                        \* unrounded water level that produced the row
    activation,         \* history, one entry per append to calc_sectors: the
                        \* sector appended, the step n, the water level, the
                        \* sector whose loop pass appended it and the ridge
                        \* (previous_min_ele or next_min_ele) reached
    ws_start_point,     \* the start_point given to a WaterSection built
                        \* directly (specification SpecWS)
    ws,                 \* a WaterSection built directly (specification SpecWS)
    levels_result,      \* Morfostvor.levels_result: the rows of get_prob_table
    calc_args,          \* the arguments n, i, h, a of a Calculation built
                        \* directly (specification SpecCalc)
    calculation,        \* a Calculation built directly (specification SpecCalc)
    design_water_level_index,
                        \* Morfostvor.design_water_level_index
    sectors_result,     \* Morfostvor.sectors_result: the rows of
                        \* get_sectors_result
    first_run           \* the tables of the first run of calculate() when a
                        \* second run has been started (specification
                        \* SpecTwice), NoRun otherwise

vars == <<x, y, sectors, dH, probability, OVERFLOW, CALC_TYPE, pc, fatal, step,
          water_level, consumption_summ, consumption_check, min_sector,
          calc_sectors, df, n, hist, activation, ws_start_point, ws,
          levels_result, calc_args, calculation, design_water_level_index,
          sectors_result, first_run>>

---------------------------------------------------------------------------
(* Python lists as sequences: index 0 is element 1.                         *)

PyAt(s, i) == IF i >= 0 THEN s[i + 1] ELSE s[Len(s) + i + 1]

PySlice(s, a, b) == SubSeq(s, a + 1, IF b > Len(s) THEN Len(s) ELSE b)

PyInsert(s, pos, v) == SubSeq(s, 1, pos) \o <<v>> \o SubSeq(s, pos + 1, Len(s))

SeqMin(s) == CHOOSE m \in {s[k] : k \in 1..Len(s)} :
                 \A k \in 1..Len(s) : m <= s[k]

SeqMax(s) == CHOOSE m \in {s[k] : k \in 1..Len(s)} :
                 \A k \in 1..Len(s) : m >= s[k]

\* list.index(v): the first position holding v (0-based)
PyIndex(s, v) == (CHOOSE k \in 1..Len(s) :
                     s[k] = v /\ \A j \in 1..(k - 1) : s[j] # v) - 1

\* a sum that leaves every term out
SumOfNone(s) == 0

RECURSIVE SeqSum(_)
SeqSum(s) == IF s = <<>> THEN 0 ELSE s[1] + SeqSum(Tail(s))

Abs(a) == IF a < 0 THEN -a ELSE a

\* Body(v) with v evaluated once
Bind(v, Body(_)) == Body(v)

RECURSIVE IsqrtFrom(_, _)
IsqrtFrom(a, r) ==
    IF r <= a \div r /\ (r + 1) > a \div (r + 1) THEN r
    ELSE IsqrtFrom(a, (r + a \div r) \div 2)

\* floor of the square root (Newton iteration from above)
Isqrt(a) == IF a <= 0 THEN 0 ELSE IF a < 4 THEN 1 ELSE IsqrtFrom(a, a \div 2)

---------------------------------------------------------------------------
(* hydraulic.lib (not part of the modelled file): poly_area and chunk_list. *)

RECURSIVE Shoelace(_, _, _)
Shoelace(xs, ys, k) ==
    IF k > Len(xs) THEN 0
    ELSE LET k1 == IF k = Len(xs) THEN 1 ELSE k + 1
         IN  xs[k] * ys[k1] - xs[k1] * ys[k] + Shoelace(xs, ys, k + 1)

\* the shoelace sum without the halving
shoelace_sum(xs, ys) == Abs(Shoelace(xs, ys, 1))

\* area of the closed polygon by the shoelace formula
poly_area(xs, ys) == Abs(Shoelace(xs, ys, 1)) \div 2

\* chunk_list(seq, 2): the two halves of a list
chunk_list(s) == <<SubSeq(s, 1, Len(s) \div 2),
                   SubSeq(s, Len(s) \div 2 + 1, Len(s))>>

---------------------------------------------------------------------------
(* The statuses of sys.exit at the fatal errors.                            *)

\* WaterSection.boundary: the water level is below the lowest point
ExitLevelBelowMin == 1

\* WaterSection.__post_init__: a boundary of the water was not found
ExitNoBoundary == 2

\* Calculation.__post_init__: config.CALC_TYPE is not 1, 2 or 3
ExitCalcType == 1

\* Morfostvor.__post_init__: config.CALC_TYPE is not 1, 2 or 3
ExitMorfostvorCalcType == 0

\* read_xls: a sector without a roughness or a slope; sys.exit() without an
\* argument ends the process with status 0
ExitSectorCheck == 0

\* the position of a run ended by sys.exit(code)
ExitPc(code) ==
    IF code = 0 THEN "exit0" ELSE IF code = 1 THEN "exit1" ELSE "exit2"

---------------------------------------------------------------------------
(* WaterSection                                                            *)

\* the fixed value substituted for a zero average depth / hydraulic radius
\* (0.00001 m)
Epsilon == 1

\* the second node of the segment, without interpolation
interp1d_node(y1, y2, x1, x2, level) == x2

\* interpolate.interp1d([y1, y2], [x1, x2])(level), y1 >= level >= y2 or
\* y1 <= level <= y2.  On a segment with y1 = y2 the linear case of interp1d
\* (numpy.interp) returns the value at the second node.
interp1d(y1, y2, x1, x2, level) ==
    IF y1 = y2 THEN x2
    ELSE IF y1 > y2 THEN x1 + ((y1 - level) * (x2 - x1)) \div (y1 - y2)
    ELSE x1 + ((level - y1) * (x2 - x1)) \div (y2 - y1)

\* the loop to the left of the start point: <<x, point>> of the boundary
\* found, or <<>> when the loop ends without a break
RECURSIVE LeftLoop(_, _, _, _, _)
LeftLoop(xs, ys, level, s, i) ==
    IF i < 0 THEN <<>>
    ELSE IF s = 0 /\ PyAt(ys, s) <= level THEN <<PyAt(xs, 0), 0>>
    ELSE IF PyAt(ys, i - 1) >= level /\ PyAt(ys, i) <= level
         THEN <<interp1d(PyAt(ys, i - 1), PyAt(ys, i),
                         PyAt(xs, i - 1), PyAt(xs, i), level), i - 1>>
    ELSE IF i - 1 = 0 /\ PyAt(ys, i - 1) <= level
         THEN <<PyAt(xs, i - 1), i - 1>>
    ELSE LeftLoop(xs, ys, level, s, i - 1)

\* a loop to the right that does not stop at a last vertex under water
RECURSIVE RightLoopNoEnd(_, _, _, _)
RightLoopNoEnd(xs, ys, level, i) ==
    IF i >= Len(ys) - 1 THEN <<>>
    ELSE IF PyAt(ys, i) <= level /\ PyAt(ys, i + 1) >= level
         THEN <<interp1d(PyAt(ys, i), PyAt(ys, i + 1),
                         PyAt(xs, i), PyAt(xs, i + 1), level), i>>
    ELSE RightLoopNoEnd(xs, ys, level, i + 1)

\* the loop to the right of the start point
RECURSIVE RightLoop(_, _, _, _)
RightLoop(xs, ys, level, i) ==
    IF i >= Len(ys) - 1 THEN <<>>
    ELSE IF PyAt(ys, i) <= level /\ PyAt(ys, i + 1) >= level
         THEN <<interp1d(PyAt(ys, i), PyAt(ys, i + 1),
                         PyAt(xs, i), PyAt(xs, i + 1), level), i>>
    ELSE IF i + 1 = Len(ys) - 1 /\ PyAt(ys, Len(ys) - 1) <= level
         THEN <<PyAt(xs, Len(xs) - 1), i + 1>>
    ELSE RightLoop(xs, ys, level, i + 1)

\* WaterSection.boundary() past the level check: the two loops and the test
\* of the right end.  The lists water_boundary_x and water_boundary_points
\* (water_boundary_y holds the level once per boundary found; the fourth
\* element of the result is 0)
boundary_search(xs, ys, level, start_point) ==
    LET sp == IF start_point = <<>>
              THEN <<PyIndex(ys, SeqMin(ys)), SeqMin(ys)>>
              ELSE start_point
        s  == sp[1]
        l  == LeftLoop(xs, ys, level, s, s)
        r  == RightLoop(xs, ys, level, s)
        e  == IF s = Len(ys) - 1 /\ PyAt(ys, s) <= level
              THEN <<PyAt(xs, Len(ys) - 1), Len(ys) - 1>>
              ELSE <<>>
        hit == SelectSeq(<<l, r, e>>, LAMBDA b : b # <<>>)
    IN  [exit |-> 0,
         bx   |-> [k \in 1..Len(hit) |-> hit[k][1]],
         pts  |-> [k \in 1..Len(hit) |-> hit[k][2]],
         flag |-> 0]

\* a boundary() without the check of the level against the lowest point
boundary_unchecked(xs, ys, level, start_point) ==
    boundary_search(xs, ys, level, start_point)

\* WaterSection.boundary(): exit = 1 is sys.exit(1), a level below the lowest
\* point of the polyline
boundary(xs, ys, level, start_point) ==
    IF level < SeqMin(ys)
    THEN [exit |-> ExitLevelBelowMin, bx |-> <<>>, pts |-> <<>>, flag |-> 0]
    ELSE boundary_search(xs, ys, level, start_point)

RECURSIVE SumSqr(_, _)
SumSqr(xs, k) ==
    IF k >= Len(xs) THEN 0
    ELSE (xs[k + 1] - xs[k]) * (xs[k + 1] - xs[k]) + SumSqr(xs, k + 1)

\* a zero ratio left as it is
depth_unfloored(d) == d

\* "if self.average_depth == 0: self.average_depth = 0.00001", and the same
\* for r_hydraulic
depth_floor(d) == IF d = 0 THEN Epsilon ELSE d

\* WaterSection._calculate_parameters(water_boundary), with both boundaries
\* found
calculate_parameters(xs, ys, level, wb, overflow) ==
    LET x1  == wb.bx[1]
        x2  == wb.bx[2]
        lp  == wb.pts[1]
        rp  == wb.pts[2]
        wx0 == <<x1>> \o PySlice(xs, lp + 1, rp + 1) \o <<x2>>
        wy0 == <<level>> \o PySlice(ys, lp + 1, rp + 1) \o <<level>>
        first == IF overflow THEN level > PyAt(ys, lp) ELSE level > PyAt(ys, 0)
        wx1 == IF first THEN PyInsert(wx0, 1, PyAt(xs, 0)) ELSE wx0
        wy1 == IF first THEN PyInsert(wy0, 1, PyAt(ys, 0)) ELSE wy0
        last == wb.flag > 1 /\ level > PyAt(ys, -1)
        wx  == IF last THEN PyInsert(wx1, Len(wx1) - 1, PyAt(xs, -1)) ELSE wx1
        wy  == IF last THEN PyInsert(wy1, Len(wy1) - 1, PyAt(ys, -1)) ELSE wy1
        width == x2 - x1
    IN  Bind(poly_area(wx, wy), LAMBDA area :
        Bind(Isqrt(SumSqr(wx, 1)), LAMBDA wp :
        LET ad0 == IF area > 0 /\ width > 0 THEN (area * 100) \div width ELSE 0
            rh0 == IF area > 0 /\ wp > 0 THEN (area * 100) \div wp ELSE 0
        IN  [status |-> "ok",
             water_section_x |-> wx, water_section_y |-> wy,
             width |-> width, area |-> area,
             average_depth |-> depth_floor(ad0),
             max_depth |-> SeqMax([k \in 1..Len(wy) |-> (level - wy[k]) * 100]),
             wet_perimeter |-> 0, w_perimeter |-> wp,
             r_hydraulic |-> depth_floor(rh0)]))

\* the object left behind by a constructor that ended in sys.exit(code)
NoSection(code) ==
    [status |-> ExitPc(code),
     water_section_x |-> <<>>, water_section_y |-> <<>>,
     width |-> 0, area |-> 0, average_depth |-> 0, max_depth |-> 0,
     wet_perimeter |-> 0, w_perimeter |-> 0, r_hydraulic |-> 0]

\* WaterSection(x, y, water_level, start_point=...): __post_init__
WaterSection(xs, ys, level, start_point, overflow) ==
    Bind(boundary(xs, ys, level, start_point), LAMBDA wb :
        IF wb.exit # 0 THEN NoSection(wb.exit)
        ELSE IF Len(wb.bx) < 2
        THEN NoSection(ExitNoBoundary)             \* IndexError -> sys.exit(2)
        ELSE calculate_parameters(xs, ys, level, wb, overflow))

---------------------------------------------------------------------------
(* Calculation.  Real numbers in fixed point: "e4" is 1e-4, "e5" is 1e-5.   *)

\* product of two e5 numbers (each below 4.4)
Mul5(a, b) == ((a \div 10) * (b \div 10)) \div 1000

\* square root of an e5 number (below 20), e5
Sqrt5(r) == Isqrt(r * 1000) * 10

PowBitCount == 12

\* b ** e for 0 <= e < 1 (e4), by the binary digits of the exponent:
\* b^e = prod over the digits d_k of e of (b^(1/2^k))^d_k
RECURSIVE PowBits(_, _, _)
PowBits(r, e, k) ==
    IF k = 0 THEN 100000
    ELSE LET r2 == Sqrt5(r)
         IN  IF 2 * e >= 10000
             THEN Mul5(r2, PowBits(r2, 2 * e - 10000, k - 1))
             ELSE PowBits(r2, 2 * e, k - 1)

Pow5(b, e) == PowBits(b, e, PowBitCount)

\* binary logarithm of m (e4, 1 <= m < 2): its first k binary places, as an
\* integer, by repeated squaring
RECURSIVE Log2Frac(_, _, _)
Log2Frac(m, k, acc) ==
    IF k = 0 THEN acc
    ELSE LET m2 == (m * m) \div 10000
         IN  IF m2 >= 20000
             THEN Log2Frac(m2 \div 2, k - 1, 2 * acc + 1)
             ELSE Log2Frac(m2, k - 1, 2 * acc)

RECURSIVE Log2Int(_)
Log2Int(h) == IF h < 200000 THEN 0 ELSE 1 + Log2Int(h \div 2)

RECURSIVE Halve(_, _)
Halve(h, e) == IF e = 0 THEN h ELSE Halve(h \div 2, e - 1)

\* np.log10(h) for h >= 1 (h e5), e4
Log10(h) ==
    LET e == Log2Int(h)
        m == Halve(h, e) \div 10
        f == Log2Frac(m, PowBitCount, 0)
    IN  ((e * 4096 + f) * 30103) \div 40960

\* Calculation.__shezi_pavlovskij: y = 2.5 sqrt(n) - 0.13
\*                                     - 0.75 sqrt(h) (sqrt(n) - 0.10),
\* shezi = (1/n) h**y   (e5)
shezi_pavlovskij(nr, h) ==
    LET sn == Isqrt(nr * 100000)
        sh == Isqrt(h * 1000)
        yy == (25 * sn) \div 10 - 1300
              - (((sh * (sn - 1000)) \div 10000) * 75) \div 100
    IN  (Pow5(h, yy) * 1000) \div nr

\* Calculation.__shezi_pavlovskij_zheleznjakov: shezi = (1/n) h**y with
\* y = log10(n C) / log10(h), that is shezi = C, where
\* C = T/2 + sqrt(T^2/4 + k (1/n + sqrt(g) log10 h)),
\* T = 1/n - k (1 - log10 h), k = sqrt(g)/0.13, g = 9.80665
shezi_pavlovskij_zheleznjakov(nr, h) ==
    LET L  == Log10(h)
        inv == 1000000 \div nr
        T  == inv - (24089 * (10000 - L)) \div 10000
        U  == inv + (3132 * L) \div 10000
        W  == ((T \div 2) * (T \div 2)) \div 1000 + (24089 * U) \div 1000
    IN  (T \div 2 + Isqrt(W * 1000)) * 100

\* a band of the first formula that leaves 3 m out
PavlovskijBandOpen(h) == h >= 0 /\ h < 300000

\* the depths of the first formula: "if self.h >= 0 and self.h <= 3"
PavlovskijBand(h) == h >= 0 /\ h <= 300000

\* Calculation(n, i, h, a).__post_init__ under config.CALC_TYPE
Calculation(nr, i, h, a, calc_type) ==
    LET pav     == PavlovskijBand(h)
        formula == IF pav THEN "pavlovskij" ELSE "pavlovskij_zheleznjakov"
        si      == Pow5(i * 100, 1700)
    IN  Bind(IF pav THEN shezi_pavlovskij(nr, h)
             ELSE shezi_pavlovskij_zheleznjakov(nr, h),
             LAMBDA shezi :
        Bind(IF calc_type = 1
             THEN ((shezi \div 1000) * Isqrt(h * i * 100)) \div 1000
             ELSE IF calc_type = 2
             THEN (45 * Mul5(Pow5(h, 6700), si)) \div 100
             ELSE (375 * Mul5(Pow5(h, 5000), si)) \div 1000,
             LAMBDA v :
        IF calc_type \in {1, 2, 3}
        THEN [status |-> "ok", shezi |-> shezi, v |-> v, q |-> (a * v) \div 100,
              formula |-> formula]
        ELSE [status |-> ExitPc(ExitCalcType), shezi |-> shezi, v |-> 0, q |-> 0,
              formula |-> formula]))

---------------------------------------------------------------------------
(* Input data: the sheet read_xls() loads into the Morfostvor object.      *)

\* number of profile vertices
NPts == 4

\* distance between neighbouring vertices (mm)
XStep == 1900

\* elevations a vertex may have (mm)
YVals == {4, 23}

\* a profile with a rise of 38 mm at its third vertex, higher than YVals'
\* rise of 19 mm
HighRidge == [k \in 1..NPts |-> IF k = 3 THEN 42 ELSE 4]

\* the elevations of the profiles of a sheet
Profiles == [1..NPts -> YVals] \cup {HighRidge}

\* cap on the number of level steps explored
MaxIter == 4

\* the x coordinates of a profile of m vertices
ProfileX(m) == [k \in 1..m |-> (k - 1) * XStep]

\* the sector names of the input rows: one name per vertex; equal
\* neighbouring names form one sector (names are written in Latin letters:
\* Ruslo, Pojma, Protoka; Summa is the aggregate row's name)
RowNames ==
    { [k \in 1..NPts |-> "Ruslo"],
      [k \in 1..NPts |-> IF k <= NPts \div 2 THEN "Pojma" ELSE "Ruslo"],
      [k \in 1..NPts |-> IF k = 1 THEN "Ruslo" ELSE "Pojma"],
      [k \in 1..NPts |-> IF k = 2 THEN "Ruslo" ELSE "Pojma"],
      [k \in 1..NPts |-> IF k = 1 THEN "Pojma"
                         ELSE IF k = 2 THEN "Ruslo" ELSE "Protoka"],
      [k \in 1..NPts |-> IF k = 1 THEN "Ruslo" ELSE "Staritsa"],
      [k \in 1..NPts |-> IF k <= NPts \div 2 THEN "Zaton" ELSE "Ruslo"] }

\* an empty cell of the sheet (the string '')
Missing == -1

\* roughness (1e-3) and slope (promille) given with a sector name; the rows of
\* Staritsa have no roughness
RowRoughness(name) ==
    IF name = "Ruslo" THEN 30 ELSE IF name = "Pojma" THEN 50
    ELSE IF name = "Staritsa" THEN Missing ELSE 40

\* "if sector.slope <= 0 or sector.slope > 900"
SuspiciousSlope(slope) == slope <= 0 \/ slope > 900

\* the values of config.CALC_TYPE: the three flow regimes and a value that
\* is none of them
CalcTypes == {1, 2, 3, 4}

\* the rows of Zaton (a backwater) have the slope 0
RowSlope(name) ==
    IF name = "Protoka" THEN 3 ELSE IF name = "Zaton" THEN 0 ELSE 2

\* values of the level step cell: empty (a string), zero, negative, positive
StepValues ==
    { [kind |-> "str", value |-> 0] }
    \cup { [kind |-> "num", value |-> v] : v \in {0, -1, 2} }

\* target discharges (1e-8 m^3/s)
QLow == 20000

QHigh == 150000

\* the cells of the probability table: <<label, starred, Q>>; a label that
\* ends with '*' marks the design level
ProbabilityCells ==
    { << <<"1", FALSE, QLow>> >>,
      << <<"5", FALSE, QLow>>, <<"1", TRUE, QHigh>> >>,
      << <<"5", TRUE, 0>>, <<"1", FALSE, QHigh>> >> }

\* self.probability of the cells: the label without its '*' and the discharge
ProbabilityOf(cells) == [k \in 1..Len(cells) |-> <<cells[k][1], cells[k][3]>>]

RECURSIVE DesignIndexFrom(_, _, _)
DesignIndexFrom(cells, k, index) ==
    IF k > Len(cells) THEN index
    ELSE DesignIndexFrom(cells, k + 1, IF cells[k][2] THEN k - 1 ELSE index)

\* self.design_water_level_index of the cells: the position of the last
\* starred entry, 0 when none is starred
DesignIndexOf(cells) == DesignIndexFrom(cells, 1, 0)

Probabilities == {ProbabilityOf(cells) : cells \in ProbabilityCells}

\* the values numpy.random.uniform may give at one construction of a
\* ProfileSector
ColorDraws == {1, 2}

\* ProfileSector.get_color (tenths): fixed for Ruslo, random within the
\* ranges of the name otherwise
get_color(name, draw) ==
    IF name = "Ruslo" THEN <<0, 5, 10>>
    ELSE IF name = "Protoka" THEN <<0, draw, 5 + draw>>
    ELSE IF name = "Pojma" THEN <<3 + draw, 0, 0>>
    ELSE <<draw, 2 * draw, 3 * draw>>

\* the values a division by zero leaves in a column: 0/0 and a/0; NaN is also
\* the value of a result that was not computed
NaN == -1

Inf == -2

\* ProfileSector(id, name, start_point, end_point, roughness, slope, coord):
\* the results are NaN until get_sectors_result stores them, and
\* __post_init__ sets the colour
ProfileSector(id, name, point, draw) ==
    [id |-> id, name |-> name, start_point |-> point, end_point |-> point,
     roughness |-> RowRoughness(name), slope |-> RowSlope(name),
     consumption |-> NaN, depth |-> NaN, speed |-> NaN, area |-> NaN,
     width |-> NaN, color |-> get_color(name, draw)]

\* read_xls.get_sectors: the sectors of the rows' names.  A sector starts at
\* the last point of the previous one; the last sector ends at the last point.
\* draws[id] is what the random generator gives the sector id.
RECURSIVE SectorsFrom(_, _, _, _)
SectorsFrom(names, line, acc, draws) ==
    IF line > Len(names) THEN acc
    ELSE IF line = 1
    THEN SectorsFrom(names, 2,
             <<ProfileSector(1, names[1], 0, draws[1])>>, draws)
    ELSE IF names[line] # acc[Len(acc)].name
    THEN SectorsFrom(names, line + 1,
             [acc EXCEPT ![Len(acc)].end_point = line - 1]
             \o <<ProfileSector(Len(acc) + 1, names[line], line - 1,
                                draws[Len(acc) + 1])>>, draws)
    ELSE SectorsFrom(names, line + 1, acc, draws)

get_sectors(names, draws) ==
    LET s == SectorsFrom(names, 1, <<>>, draws)
    IN  [s EXCEPT ![Len(s)].end_point = Len(names) - 1]

\* the draws of the sectors of one sheet (no sheet has more than three
\* sectors)
Draws == [1..3 -> ColorDraws]

\* ProfileSector.coord: the slice of the profile between the sector's points
CoordX(sector) ==
    PySlice(x, sector.start_point, sector.end_point + 1)

CoordY(sector) == PySlice(y, sector.start_point, sector.end_point + 1)

---------------------------------------------------------------------------
(* Morfostvor                                                              *)

\* Morfostvor.ele_min, set by read_xls to min(self.y)
ele_min == SeqMin(y)

RECURSIVE MinSectorFrom(_, _)
MinSectorFrom(k, best) ==
    IF k > Len(sectors) THEN best
    ELSE IF SeqMin(CoordY(sectors[k])) < SeqMin(CoordY(sectors[best + 1]))
    THEN MinSectorFrom(k + 1, k - 1)
    ELSE MinSectorFrom(k + 1, best)

\* the list index of the last sector, whatever its elevations
get_last_sector == Len(sectors) - 1

\* Morfostvor.get_min_sector()[0]: the list index of the first sector that
\* holds the lowest elevation
get_min_sector == MinSectorFrom(1, 0)

RECURSIVE QMaxFrom(_, _, _)
QMaxFrom(prob, k, q_max) ==
    IF k > Len(prob) THEN q_max
    ELSE QMaxFrom(prob, k + 1, IF q_max <= prob[k][2] THEN prob[k][2] ELSE q_max)

\* a get_q_max() that returns the first entry's discharge instead of the
\* largest
get_q_first(prob) == prob[1][2]

\* Morfostvor.get_q_max()[1]
get_q_max(prob) == QMaxFrom(prob, 1, prob[1][2])

\* round(water_level, 2): to the nearest centimetre (the levels of the model
\* are never half a centimetre apart from one)
Round2(level) == ((level + 5) \div 10) * 10

\* the level step calculate() uses (cm): 1 for a string or for zero
StepOf(dh) == IF dh.kind = "str" \/ dh.value = 0 THEN 1 ELSE dh.value

\* a row of the data frame: col = ["Участок", "УВ", "F", "B", "Hср", "Hмакс",
\* "V", "Q", "Shezi"]
Row(name, level, f, b, hsr, hmax, v, q, shezi) ==
    [Uchastok |-> name, UV |-> level, F |-> f, B |-> b, Hsr |-> hsr,
     Hmax |-> hmax, V |-> v, Q |-> q, Shezi |-> shezi]

InSeq(v, s) == \E k \in 1..Len(s) : s[k] = v

\* an overflow test that fires one level step early
OverflowsNextStep(level, ridge) == level + step >= ridge

\* the overflow test of calculate(): the level has reached the highest point
\* of a half of the sector
Overflows(level, ridge) == level >= ridge

\* a loop over a copy of the list taken before the loop: appends made inside
\* the loop are not visited
IterListAtLevelStart(cs) == calc_sectors

\* the list the loop "for i in calc_sectors" ranges over: the list itself,
\* appends made inside the loop included
IterList(cs) == cs

\* no start point given, whatever the sector
StartPointDefault(sector, ys) == <<>>

\* the start point calculate() gives WaterSection in overflow mode
StartPoint(sector, ys) ==
    IF sector.id = sectors[min_sector + 1].id THEN <<>>
    ELSE IF sector.id < sectors[min_sector + 1].id
    THEN <<Len(ys) - 1, PyAt(ys, -1)>>
    ELSE <<0, PyAt(ys, 0)>>

\* a row whose discharge is tinted by the colour drawn for the sector
SectorRowTinted(sector, water, calc) ==
    Row(sector.name, Round2(water_level), water.area, water.width,
        water.average_depth, water.max_depth, calc.v,
        calc.q + sector.color[1], calc.shezi)

\* the row of one sector at the current level
SectorRow(sector, water, calc) ==
    Row(sector.name, Round2(water_level), water.area, water.width,
        water.average_depth, water.max_depth, calc.v, calc.q, calc.shezi)

\* the history entry of a row appended at the current level
HistEntry(sec) == [sec |-> sec, n |-> n, wl |-> water_level]

\* the history entry of a sector row: also the start_point given to
\* WaterSection (<<>>: none given) and the two boundaries it found
HistEntryWS(sec, start_point, water) ==
    [sec |-> sec, n |-> n, wl |-> water_level, start |-> start_point,
     x_left |-> water.water_section_x[1],
     x_right |-> water.water_section_x[Len(water.water_section_x)]]

\* the body of "for i in calc_sectors" (overflow mode), from position k on
RECURSIVE OverflowPass(_, _)
OverflowPass(k, st) ==
    IF st.status # "ok" \/ k > Len(IterList(st.cs)) THEN st
    ELSE
    LET i      == st.cs[k]
        sector == sectors[i + 1]
        xs     == CoordX(sector)
        ys     == CoordY(sector)
        previous_min_ele == SeqMax(chunk_list(ys)[1])
        next_min_ele     == SeqMax(chunk_list(ys)[2])
        addL   == /\ Overflows(water_level, previous_min_ele)
                  /\ ~InSeq(i - 1, st.cs)
                  /\ i - 1 >= 0
        cs1    == IF addL THEN Append(st.cs, i - 1) ELSE st.cs
        addR   == /\ Overflows(water_level, next_min_ele)
                  /\ ~InSeq(i + 1, cs1)
                  /\ i + 1 <= Len(sectors) - 1
        cs2    == IF addR THEN Append(cs1, i + 1) ELSE cs1
        acts   == (IF addL
                   THEN <<[sec |-> i - 1, n |-> n, wl |-> water_level,
                           by |-> i, ridge |-> previous_min_ele]>>
                   ELSE <<>>)
                  \o (IF addR
                      THEN <<[sec |-> i + 1, n |-> n, wl |-> water_level,
                              by |-> i, ridge |-> next_min_ele]>>
                      ELSE <<>>)
    IN  Bind(WaterSection(xs, ys, water_level, StartPoint(sector, ys),
                          OVERFLOW),
             LAMBDA water :
        IF water.status # "ok" THEN [st EXCEPT !.status = water.status]
        ELSE Bind(Calculation(sector.roughness, sector.slope,
                              water.average_depth, water.area, CALC_TYPE),
                  LAMBDA calc :
        IF calc.status # "ok" THEN [st EXCEPT !.status = calc.status]
        ELSE OverflowPass(k + 1,
                 [status |-> "ok", cs |-> cs2,
                  wc_list |-> Append(st.wc_list, calc.q),
                  rows |-> Append(st.rows, SectorRow(sector, water, calc)),
                  hist |-> Append(st.hist,
                              HistEntryWS(i, StartPoint(sector, ys), water)),
                  acts |-> st.acts \o acts])))

\* a test that waits until the whole sector is under water
AllBelowLevel(ys, level) == SeqMax(ys) < level

\* "if min(y) < water_level": the sector has a point under water
BelowLevel(ys, level) == SeqMin(ys) < level

\* the body of "for sector in self.sectors" (filling by sectors), from k on
RECURSIVE SectorPass(_, _)
SectorPass(k, st) ==
    IF st.status # "ok" \/ k > Len(sectors) THEN st
    ELSE
    LET sector == sectors[k]
        xs     == CoordX(sector)
        ys     == CoordY(sector)
    IN  IF ~BelowLevel(ys, water_level) THEN SectorPass(k + 1, st)
        ELSE Bind(WaterSection(xs, ys, water_level, <<>>, OVERFLOW),
                  LAMBDA water :
        IF water.status # "ok" THEN [st EXCEPT !.status = water.status]
        ELSE Bind(Calculation(sector.roughness, sector.slope,
                              water.average_depth, water.area, CALC_TYPE),
                  LAMBDA calc :
        IF calc.status # "ok" THEN [st EXCEPT !.status = calc.status]
        ELSE SectorPass(k + 1,
                 [st EXCEPT !.wc_list = Append(st.wc_list, calc.q),
                            !.rows = Append(st.rows,
                                            SectorRow(sector, water, calc)),
                            !.hist = Append(st.hist,
                                            HistEntryWS(k - 1, <<>>, water))])))

\* one pass of the while loop over the sectors
LevelPass ==
    LET st0 == [status |-> "ok", cs |-> calc_sectors, wc_list |-> <<>>,
                rows |-> <<>>, hist |-> <<>>, acts |-> <<>>]
    IN  IF OVERFLOW THEN OverflowPass(1, st0) ELSE SectorPass(1, st0)

\* a pass that appends the aggregate row before the sector rows
LevelRowsSummaFirst(rows) ==
    <<Row("Summa", Round2(water_level), 0, 0, 0, 0, 0, 0, 0)>> \o rows

\* the rows one pass of the while loop appends to df: the sector rows in the
\* order evaluated, then the empty aggregate row r_sum
LevelRows(rows) ==
    rows \o <<Row("Summa", Round2(water_level), 0, 0, 0, 0, 0, 0, 0)>>

---------------------------------------------------------------------------
(* The aggregate rows: df.set_index(["УВ", "Участок"]) and the assignments   *)
(* to df.loc[(water_levels, "Сумма"), column].                              *)

Div(a, b) == IF b # 0 THEN a \div b ELSE IF a = 0 THEN NaN ELSE Inf

RECURSIVE GroupSumFrom(_, _, _, _)
GroupSumFrom(t, level, col, k) ==
    IF k > Len(t) THEN 0
    ELSE (IF t[k].UV = level THEN t[k][col] ELSE 0)
         + GroupSumFrom(t, level, col, k + 1)

\* df.groupby(level=0)[col].transform("sum") at the rows of one level
GroupSum(t, level, col) == GroupSumFrom(t, level, col, 1)

\* df.groupby(level=0)[col].transform("max")
GroupMax(t, level, col) ==
    SeqMax(SelectSeq([k \in 1..Len(t) |-> IF t[k].UV = level THEN t[k][col]
                                           ELSE -1],
                     LAMBDA v : v >= 0))

\* df.groupby(level=0)[col].transform("count")
GroupCount(t, level) == Cardinality({k \in 1..Len(t) : t[k].UV = level})

\* water_levels = df.index.levels[0]
water_levels(t) == {t[k].UV : k \in 1..Len(t)}

\* df.loc[(water_levels, "Сумма"), col] = value: the aggregate rows take the
\* value of their level, the other rows stay
SetSumma(t, col, value) ==
    [k \in 1..Len(t) |->
        IF t[k].Uchastok = "Summa"
        THEN [t[k] EXCEPT ![col] = value[t[k].UV]]
        ELSE t[k]]

\* the assignments in the order of the code: each reads the frame the
\* previous ones have written
FillF(t) ==
    SetSumma(t, "F", [l \in water_levels(t) |-> GroupSum(t, l, "F")])

FillB(t) ==
    SetSumma(t, "B", [l \in water_levels(t) |-> GroupSum(t, l, "B")])

FillHsr(t) ==
    SetSumma(t, "Hsr",
             [l \in water_levels(t) |->
                 Div(GroupSum(t, l, "F") * 100, GroupSum(t, l, "B"))])

FillHmax(t) ==
    SetSumma(t, "Hmax", [l \in water_levels(t) |-> GroupMax(t, l, "Hmax")])

\* an aggregate discharge taken as the largest of the level, not the sum
FillQMax(t) ==
    SetSumma(t, "Q", [l \in water_levels(t) |-> GroupMax(t, l, "Q")])

FillQ(t) ==
    SetSumma(t, "Q", [l \in water_levels(t) |-> GroupSum(t, l, "Q")])

\* an aggregate velocity taken as the mean of the sector velocities
FillVMeanOfSectors(t) ==
    SetSumma(t, "V",
             [l \in water_levels(t) |->
                 Div(GroupSum(t, l, "V"), GroupCount(t, l) - 1)])

FillV(t) ==
    SetSumma(t, "V",
             [l \in water_levels(t) |->
                 Div(GroupSum(t, l, "Q") * 100, GroupSum(t, l, "F"))])

FillShezi(t) ==
    SetSumma(t, "Shezi",
             [l \in water_levels(t) |->
                 Div(GroupSum(t, l, "Shezi"), GroupCount(t, l) - 1)])

\* a table whose missing values are left as they are
keepna(t) == t

\* df.fillna(0)
fillna(t) ==
    [k \in 1..Len(t) |->
        [c \in DOMAIN t[k] |->
            IF c # "Uchastok" /\ t[k][c] = NaN THEN 0 ELSE t[k][c]]]

\* two rows with the same index (УВ, Участок)
DuplicateIndex(t) ==
    \E j, k \in 1..Len(t) :
        j < k /\ t[j].UV = t[k].UV /\ t[j].Uchastok = t[k].Uchastok

\* the finished table
FillSumma(t) ==
    fillna(FillShezi(FillV(FillQ(FillHmax(FillHsr(FillB(FillF(t))))))))

---------------------------------------------------------------------------
(* get_prob_table                                                          *)

\* r put into a sorted list after the rows that are not above it
RECURSIVE InsertBy(_, _, _)
InsertBy(sorted, r, col) ==
    IF sorted = <<>> THEN <<r>>
    ELSE IF sorted[Len(sorted)][col] <= r[col] THEN Append(sorted, r)
    ELSE Append(InsertBy(SubSeq(sorted, 1, Len(sorted) - 1), r, col),
                sorted[Len(sorted)])

\* a stable sort of the first k rows by a column (numpy.argsort, mergesort)
RECURSIVE SortBy(_, _, _)
SortBy(t, col, k) ==
    IF k = 0 THEN <<>> ELSE InsertBy(SortBy(t, col, k - 1), t[k], col)

\* the aggregate rows of the level steps only, without the initial row
p_table_steps(t) ==
    Bind(SelectSeq(t, LAMBDA r : r.Uchastok = "Summa" /\ r.Hmax > 0),
         LAMBDA s : SortBy(s, "UV", Len(s)))

\* p_table of calculate(): the aggregate rows, by level
p_table(t) ==
    Bind(SelectSeq(t, LAMBDA r : r.Uchastok = "Summa"),
         LAMBDA s : SortBy(s, "UV", Len(s)))

\* a * b / c for 0 <= a <= c, with a and c scaled down so that no product
\* leaves 32 bits: between two nodes the value is the float's to about 1e-4
MulDiv(a, b, c) ==
    LET s  == c \div 30000 + 1
        a1 == a \div s
        c1 == c \div s
    IN  (b \div c1) * a1 + ((b % c1) * a1) \div c1

\* interp1d checks the bounds: a value outside the discharges of the curve
\* raises ValueError
InRange(pt, q) ==
    /\ \E k \in 1..Len(pt) : pt[k].Q <= q
    /\ \E k \in 1..Len(pt) : pt[k].Q >= q

\* interpolate.interp1d(df["Q"], df[col])(q) on the curve sorted by Q: the
\* node is the last one with Q <= q (numpy.interp), and the node's own value
\* is returned when q is its discharge
interp1d_Q(sorted, col, q) ==
    LET j == CHOOSE k \in 1..Len(sorted) :
                 /\ sorted[k].Q <= q
                 /\ \A m \in (k + 1)..Len(sorted) : sorted[m].Q > q
    IN  IF j = Len(sorted) \/ sorted[j].Q = q THEN sorted[j][col]
        ELSE sorted[j][col]
             + MulDiv(q - sorted[j].Q, sorted[j + 1][col] - sorted[j][col],
                      sorted[j + 1].Q - sorted[j].Q)

\* one row of get_prob_table: the level, velocity and area at discharge q
resolve(pt, q) ==
    Bind(SortBy(pt, "Q", Len(pt)), LAMBDA sorted :
        [H |-> interp1d_Q(sorted, "UV", q),
         V |-> interp1d_Q(sorted, "V", q),
         F |-> interp1d_Q(sorted, "F", q)])

\* Morfostvor.get_prob_table(df): a row per entry of self.probability
get_prob_table(pt, prob) ==
    [k \in 1..Len(prob) |->
        Bind(resolve(pt, prob[k][2]), LAMBDA r :
            [P |-> prob[k][1], Q |-> prob[k][2], H |-> r.H, V |-> r.V,
             F |-> r.F])]

---------------------------------------------------------------------------
(* get_sectors_result                                                      *)

\* df.loc[name]: the rows of the table that carry the name
RowsOf(t, name) == SelectSeq(t, LAMBDA r : r.Uchastok = name)

\* "wl >= df.loc[sector.name].index.min() and wl <= ...index.max()"
Brackets(rows, wl) ==
    /\ wl >= SeqMin([k \in 1..Len(rows) |-> rows[k].UV])
    /\ wl <= SeqMax([k \in 1..Len(rows) |-> rows[k].UV])

\* interpolate.interp1d(levels, values)(wl) on rows sorted by level, for a
\* level within the rows: the node's own value at a node, linear between
interp1d_UV(sorted, col, wl) ==
    LET j == CHOOSE k \in 1..Len(sorted) :
                 /\ sorted[k].UV <= wl
                 /\ \A m \in (k + 1)..Len(sorted) : sorted[m].UV > wl
    IN  IF j = Len(sorted) \/ sorted[j].UV = wl THEN sorted[j][col]
        ELSE sorted[j][col]
             + MulDiv(wl - sorted[j].UV, sorted[j + 1][col] - sorted[j][col],
                      sorted[j + 1].UV - sorted[j].UV)

\* the five values of one name at the level wl
ValuesAt(rows, wl) ==
    Bind(SortBy(rows, "UV", Len(rows)), LAMBDA sorted :
        [consumption |-> interp1d_UV(sorted, "Q", wl),
         depth |-> interp1d_UV(sorted, "Hsr", wl),
         speed |-> interp1d_UV(sorted, "V", wl),
         width |-> interp1d_UV(sorted, "B", wl),
         area |-> interp1d_UV(sorted, "F", wl)])

\* q, h, v, b, f = np.nan, np.nan, np.nan, np.nan, np.nan
NoValues ==
    [consumption |-> NaN, depth |-> NaN, speed |-> NaN, width |-> NaN,
     area |-> NaN]

\* the values the loop has for a sector whose rows do not bracket the level
\* (or that has no rows: KeyError)
Unbracketed(rows, wl) == NoValues

\* round(v, 3) of a value held in units of 1/scale
Round3(v, scale) ==
    IF scale <= 1000 THEN v
    ELSE ((v + scale \div 2000) \div (scale \div 1000)) * (scale \div 1000)

\* the body of "for sector in self.sectors", from the sector k on; an
\* interp1d over fewer than two rows raises ValueError
RECURSIVE SectorsResultFrom(_, _, _, _)
SectorsResultFrom(t, wl, k, st) ==
    IF st.status # "ok" \/ k > Len(st.sectors) THEN st
    ELSE
    LET sector == st.sectors[k]
        rows   == RowsOf(t, sector.name)
    IN  IF rows # <<>> /\ Brackets(rows, wl) /\ Len(rows) < 2
        THEN [st EXCEPT !.status = "interp_error"]
        ELSE Bind(IF rows # <<>> /\ Brackets(rows, wl) THEN ValuesAt(rows, wl)
                  ELSE Unbracketed(rows, wl),
                  LAMBDA v :
             SectorsResultFrom(t, wl, k + 1,
                 [status  |-> "ok",
                  sectors |-> [st.sectors EXCEPT
                                  ![k].consumption = v.consumption,
                                  ![k].speed = v.speed,
                                  ![k].width = v.width,
                                  ![k].area = v.area,
                                  ![k].depth = v.depth],
                  result  |-> Append(st.result,
                                 [name |-> sector.name, slope |-> sector.slope,
                                  roughness |-> sector.roughness,
                                  consumption |-> v.consumption,
                                  depth |-> v.depth, speed |-> v.speed,
                                  width |-> v.width, area |-> v.area])]))

\* the row of the aggregate curve at the level, rounded to 3 decimals
SumRow(t, wl) ==
    Bind(ValuesAt(RowsOf(t, "Summa"), wl), LAMBDA v :
        [name |-> "Vse uchastki", slope |-> NaN, roughness |-> NaN,
         consumption |-> Round3(v.consumption, 100000000),
         depth |-> Round3(v.depth, 100000),
         speed |-> Round3(v.speed, 10000),
         width |-> Round3(v.width, 1000),
         area |-> Round3(v.area, 1000000)])

\* Morfostvor.get_sectors_result() on the table t and the design levels lr:
\* the sectors with their results stored, and the result table
get_sectors_result(t, lr, secs, index) ==
    Bind(SectorsResultFrom(t, lr[index + 1].H, 1,
             [status |-> "ok", sectors |-> secs, result |-> <<>>]),
         LAMBDA st :
        IF st.status # "ok" THEN st
        ELSE [st EXCEPT !.result = Append(st.result, SumRow(t, lr[index + 1].H))])

---------------------------------------------------------------------------
(* Specification Spec: a Morfostvor is constructed, read_xls() checks the    *)
(* sectors of the sheet and calculate() runs on its data.                   *)

NoWS == [status |-> "none"]

NoCalc == [status |-> "none"]

NoRun == [status |-> "none"]

Init ==
    /\ x = ProfileX(NPts)
    /\ y \in Profiles
    /\ \E names \in RowNames, draws \in Draws :
           sectors = get_sectors(names, draws)
    /\ dH \in StepValues
    /\ \E cells \in ProbabilityCells :
           /\ probability = ProbabilityOf(cells)
           /\ design_water_level_index = DesignIndexOf(cells)
    /\ OVERFLOW \in BOOLEAN
    /\ CALC_TYPE \in CalcTypes
    /\ pc = "new"
    /\ fatal = ""
    /\ levels_result = <<>>
    /\ calc_args = <<>>
    /\ calculation = NoCalc
    /\ step = 0
    /\ water_level = 0
    /\ consumption_summ = 0
    /\ consumption_check = 0
    /\ min_sector = 0
    /\ calc_sectors = <<>>
    /\ df = <<>>
    /\ n = 0
    /\ hist = <<>>
    /\ activation = <<>>
    /\ ws_start_point = <<>>
    /\ ws = NoWS
    /\ sectors_result = <<>>
    /\ first_run = NoRun

\* Morfostvor.__post_init__: the flow regime of the configuration is checked
post_init ==
    /\ pc = "new"
    /\ IF CALC_TYPE \in {1, 2, 3}
       THEN pc' = "constructed" /\ fatal' = fatal
       ELSE pc' = ExitPc(ExitMorfostvorCalcType) /\ fatal' = "config"
    /\ UNCHANGED <<x, y, sectors, dH, probability, OVERFLOW, CALC_TYPE, step,
                   water_level, consumption_summ, consumption_check,
                   min_sector, calc_sectors, df, n, hist, activation,
                   ws_start_point, ws, levels_result, calc_args, calculation,
                   design_water_level_index, sectors_result, first_run>>

\* read_xls: the check of the sectors read ("Проверка участков"): a sector
\* without a roughness or without a slope ends the run; a slope outside
\* (0, 900] is put to the operator (question_continue_app of hydraulic.lib),
\* who lets the run go on or ends it ("declined")
read_xls ==
    /\ pc = "constructed"
    /\ IF \E k \in 1..Len(sectors) :
              sectors[k].roughness = Missing \/ sectors[k].slope = Missing
       THEN pc' = ExitPc(ExitSectorCheck) /\ fatal' = "input"
       ELSE IF \E k \in 1..Len(sectors) : SuspiciousSlope(sectors[k].slope)
       THEN pc' \in {"start", "declined"} /\ fatal' = fatal
       ELSE pc' = "start" /\ fatal' = fatal
    /\ UNCHANGED <<x, y, sectors, dH, probability, OVERFLOW, CALC_TYPE, step,
                   water_level, consumption_summ, consumption_check,
                   min_sector, calc_sectors, df, n, hist, activation,
                   ws_start_point, ws, levels_result, calc_args, calculation,
                   design_water_level_index, sectors_result, first_run>>

\* calculate() up to the while loop
CalcStart ==
    /\ pc = "start"
    /\ consumption_check' =
           get_q_max(probability) + (get_q_max(probability) * 20) \div 100
    /\ dH' = [kind |-> "num", value |-> StepOf(dH)]
    /\ step' = StepOf(dH) * 10
    /\ min_sector' = get_min_sector
    /\ calc_sectors' = <<get_min_sector>>
    /\ water_level' = SeqMin(y) + StepOf(dH) * 10
    /\ consumption_summ' = 0
    /\ n' = 0
    /\ df' = <<Row("Summa", ele_min, 0, 0, 0, 0, 0, 0, 0)>>
    /\ hist' = <<[sec |-> -1, n |-> -1, wl |-> ele_min]>>
    /\ pc' = "loop"
    /\ UNCHANGED <<x, y, sectors, probability, OVERFLOW, CALC_TYPE, fatal,
                   activation, ws_start_point, ws, levels_result, calc_args,
                   calculation,
                   design_water_level_index, sectors_result, first_run>>

\* one pass of "while consumption_summ < consumption_check"
LevelStep ==
    /\ pc = "loop"
    /\ consumption_summ < consumption_check
    /\ n < MaxIter
    /\ \E r \in {LevelPass} :
           IF r.status # "ok"
           THEN /\ pc' = r.status
                /\ fatal' = "level"
                /\ UNCHANGED <<calc_sectors, consumption_summ, df, hist,
                               activation, water_level, n>>
           ELSE /\ pc' = "loop"
                /\ fatal' = fatal
                /\ calc_sectors' = r.cs
                /\ consumption_summ' = SeqSum(r.wc_list)
                /\ df' = df \o LevelRows(r.rows)
                /\ hist' = hist \o r.hist \o <<HistEntry(-1)>>
                /\ activation' = activation \o r.acts
                /\ water_level' = water_level + step
                /\ n' = n + 1
    /\ UNCHANGED <<x, y, sectors, dH, probability, OVERFLOW, CALC_TYPE, step,
                   consumption_check, min_sector, ws_start_point, ws,
                   levels_result, calc_args, calculation,
                   design_water_level_index, sectors_result, first_run>>

\* after the loop: the index is set, the aggregate rows are filled, the
\* levels of the target discharges are interpolated and the sectors are
\* resolved at the design level; an index with duplicates cannot be assigned
\* to ("error"), a target outside the discharges of the curve cannot be
\* interpolated ("domain_error"), an interpolant cannot be built on fewer than
\* two rows ("interp_error"), and the call ends with the exception
FillAggregate ==
    /\ pc = "loop"
    /\ ~(consumption_summ < consumption_check)
    /\ IF DuplicateIndex(df)
       THEN /\ pc' = "error"
            /\ UNCHANGED <<df, levels_result, sectors, sectors_result>>
       ELSE \E t \in {FillSumma(df)} :
                /\ df' = t
                /\ IF \E k \in 1..Len(probability) :
                          ~InRange(p_table(t), probability[k][2])
                   THEN /\ pc' = "domain_error"
                        /\ UNCHANGED <<levels_result, sectors, sectors_result>>
                   ELSE \E lr \in {get_prob_table(p_table(t), probability)} :
                        \E sr \in {get_sectors_result(t, lr, sectors,
                                       design_water_level_index)} :
                            /\ levels_result' = lr
                            /\ sectors' = sr.sectors
                            /\ IF sr.status # "ok"
                               THEN /\ pc' = sr.status
                                    /\ UNCHANGED sectors_result
                               ELSE /\ pc' = "filled"
                                    /\ sectors_result' = sr.result
    /\ UNCHANGED <<x, y, dH, probability, OVERFLOW, CALC_TYPE, fatal,
                   step, water_level, consumption_summ, consumption_check,
                   min_sector, calc_sectors, n, hist, activation,
                   ws_start_point, ws, calc_args, calculation,
                   design_water_level_index, first_run>>

Next == post_init \/ read_xls \/ CalcStart \/ LevelStep \/ FillAggregate

Spec == Init /\ [][Next]_vars

---------------------------------------------------------------------------
(* Specification SpecLive: calculate() on the data of a sheet that has      *)
(* passed the checks of read_xls, under either flow formula; the program    *)
(* goes on as long as it has a next step (a sequential program is never     *)
(* suspended).                                                              *)

InitLive ==
    /\ x = ProfileX(NPts)
    /\ y \in Profiles
    /\ \E names \in RowNames :
           /\ \A k \in 1..NPts : RowRoughness(names[k]) # Missing
           /\ sectors = get_sectors(names, [k \in 1..3 |-> 1])
    /\ dH \in StepValues
    /\ \E cells \in ProbabilityCells :
           /\ probability = ProbabilityOf(cells)
           /\ design_water_level_index = DesignIndexOf(cells)
    /\ OVERFLOW \in BOOLEAN
    /\ CALC_TYPE \in {1, 2}
    /\ pc = "start"
    /\ fatal = ""
    /\ levels_result = <<>>
    /\ calc_args = <<>>
    /\ calculation = NoCalc
    /\ step = 0
    /\ water_level = 0
    /\ consumption_summ = 0
    /\ consumption_check = 0
    /\ min_sector = 0
    /\ calc_sectors = <<>>
    /\ df = <<>>
    /\ n = 0
    /\ hist = <<>>
    /\ activation = <<>>
    /\ ws_start_point = <<>>
    /\ ws = NoWS
    /\ sectors_result = <<>>
    /\ first_run = NoRun

NextLive == CalcStart \/ LevelStep \/ FillAggregate

\* calculate() has a statement left to run: the call has not entered its
\* loop, or the loop has a pass to make or has ended with the tables still
\* to fill (a loop stopped by the bound on the passes has none)
Pending ==
    \/ pc = "start"
    \/ pc = "loop" /\ (consumption_summ < consumption_check => n < MaxIter)

\* the positions calculate() can be at after a step
PcAfter ==
    {"loop", "filled", "error", "domain_error", "interp_error", "exit1",
     "exit2"}

\* a step of the running call, seen on its position and its pass counter:
\* every step of NextLive moves one of the two (ProceedIsStep), and each of
\* CalcStart, LevelStep and FillAggregate can be taken wherever its condition
\* on pc, the discharges and n holds, so a step is possible exactly when a
\* statement is left
Proceed == Pending /\ pc' \in PcAfter /\ n' \in 0..MaxIter

\* a call that has a statement left runs it
SpecLive == InitLive /\ [][NextLive]_vars /\ WF_<<pc, n>>(Proceed)

---------------------------------------------------------------------------
(* Specification SpecDefect: Morfostvor.calculate() on an object whose      *)
(* fields were set by the caller, with a list of sectors that leaves the    *)
(* lowest point of the profile out.                                         *)

\* the sectors of a list whose slice does not hold the lowest elevation
AboveMin(secs) ==
    SelectSeq(secs, LAMBDA sec : SeqMin(CoordY(sec)) > SeqMin(y))

InitDefect ==
    /\ x = ProfileX(NPts)
    /\ y \in [1..NPts -> YVals]
    /\ \E names \in RowNames, draws \in Draws :
           /\ \A k \in 1..NPts : RowRoughness(names[k]) # Missing
           /\ AboveMin(get_sectors(names, draws)) # <<>>
           /\ sectors = AboveMin(get_sectors(names, draws))
    /\ dH \in StepValues
    /\ \E cells \in ProbabilityCells :
           /\ probability = ProbabilityOf(cells)
           /\ design_water_level_index = DesignIndexOf(cells)
    /\ OVERFLOW \in BOOLEAN
    /\ CALC_TYPE \in {1, 2, 3}
    /\ pc = "start"
    /\ fatal = ""
    /\ levels_result = <<>>
    /\ calc_args = <<>>
    /\ calculation = NoCalc
    /\ step = 0
    /\ water_level = 0
    /\ consumption_summ = 0
    /\ consumption_check = 0
    /\ min_sector = 0
    /\ calc_sectors = <<>>
    /\ df = <<>>
    /\ n = 0
    /\ hist = <<>>
    /\ activation = <<>>
    /\ ws_start_point = <<>>
    /\ ws = NoWS
    /\ sectors_result = <<>>
    /\ first_run = NoRun

NextDefect == CalcStart \/ LevelStep \/ FillAggregate

SpecDefect == InitDefect /\ [][NextDefect]_vars

---------------------------------------------------------------------------
(* Specification SpecTwice: calculate() runs on the data of a sheet, then   *)
(* the sheet is read again (the sectors are constructed anew, with new      *)
(* colours) and calculate() runs a second time.  The first run has the      *)
(* first draw for every sector, the second run any draws.                   *)

InitTwice ==
    /\ x = ProfileX(NPts)
    /\ y \in Profiles
    /\ \E names \in RowNames :
           /\ \A k \in 1..NPts : RowRoughness(names[k]) # Missing
           /\ sectors = get_sectors(names, [k \in 1..3 |-> 1])
    /\ dH \in StepValues
    /\ \E cells \in ProbabilityCells :
           /\ Len(cells) >= 2
           /\ probability = ProbabilityOf(cells)
           /\ design_water_level_index = DesignIndexOf(cells)
    /\ OVERFLOW \in BOOLEAN
    /\ CALC_TYPE \in {1, 2}
    /\ pc = "start"
    /\ fatal = ""
    /\ levels_result = <<>>
    /\ calc_args = <<>>
    /\ calculation = NoCalc
    /\ step = 0
    /\ water_level = 0
    /\ consumption_summ = 0
    /\ consumption_check = 0
    /\ min_sector = 0
    /\ calc_sectors = <<>>
    /\ df = <<>>
    /\ n = 0
    /\ hist = <<>>
    /\ activation = <<>>
    /\ ws_start_point = <<>>
    /\ ws = NoWS
    /\ sectors_result = <<>>
    /\ first_run = [status |-> "first", dH |-> dH]

\* the sectors of the same rows constructed once more
Reconstructed(secs, draws) ==
    [k \in 1..Len(secs) |->
        [ProfileSector(secs[k].id, secs[k].name, secs[k].start_point, draws[k])
            EXCEPT !.end_point = secs[k].end_point]]

\* the first run has finished: its tables are kept, the same sheet is read
\* again and calculate() is about to run on the new object
Rerun ==
    /\ pc = "filled"
    /\ first_run.status = "first"
    /\ first_run' = [status |-> "second", dH |-> first_run.dH, df |-> df,
                     levels_result |-> levels_result,
                     sectors_result |-> sectors_result,
                     colors |-> [k \in 1..Len(sectors) |-> sectors[k].color]]
    /\ \E draws \in Draws : sectors' = Reconstructed(sectors, draws)
    /\ dH' = first_run.dH
    /\ pc' = "start"
    /\ step' = 0
    /\ water_level' = 0
    /\ consumption_summ' = 0
    /\ consumption_check' = 0
    /\ min_sector' = 0
    /\ calc_sectors' = <<>>
    /\ df' = <<>>
    /\ n' = 0
    /\ hist' = <<>>
    /\ activation' = <<>>
    /\ levels_result' = <<>>
    /\ sectors_result' = <<>>
    /\ UNCHANGED <<x, y, probability, OVERFLOW, CALC_TYPE, fatal,
                   ws_start_point, ws, calc_args, calculation,
                   design_water_level_index>>

NextTwice == CalcStart \/ LevelStep \/ FillAggregate \/ Rerun

SpecTwice == InitTwice /\ [][NextTwice]_vars

---------------------------------------------------------------------------
(* Specification SpecWS: one WaterSection built directly on a polyline, at  *)
(* a level and from a start point of the caller's choice.                   *)

\* the trapezoid (0,10), (5,8), (10,8), (15,10) (m)
Trapezoid == [x |-> <<0, 5000, 10000, 15000>>,
              y |-> <<10000, 8000, 8000, 10000>>]

\* a polyline whose first vertex (13 mm) is above the lowest point (4 mm)
\* and behind a rise to 23 mm
Ridged == [x |-> <<0, 1900, 3800, 5700>>, y |-> <<13, 23, 4, 23>>]

\* the polylines tried: the profiles of Spec, the trapezoid and the ridged
\* polyline
WSPolylines ==
    {[x |-> ProfileX(NPts), y |-> ys] : ys \in [1..NPts -> YVals]}
    \cup {Trapezoid, Ridged}

\* the levels tried (mm): below, at and above the elevations of the polyline
WSLevels(p) ==
    IF p = Trapezoid THEN {7000, 8000, 9000, 10000}
    ELSE {-6, 4, 14, 23, 33}

\* the start points tried: none given, or a vertex with its elevation
WSStartPoints(ys) == {<<>>} \cup {<<k, PyAt(ys, k)>> : k \in 0..(Len(ys) - 1)}

InitWS ==
    /\ \E p \in WSPolylines :
           /\ x = p.x
           /\ y = p.y
           /\ water_level \in WSLevels(p)
    /\ ws_start_point \in WSStartPoints(y)
    /\ fatal = ""
    /\ levels_result = <<>>
    /\ calc_args = <<>>
    /\ calculation = NoCalc
    /\ OVERFLOW \in BOOLEAN
    /\ sectors = <<>>
    /\ dH = [kind |-> "num", value |-> 1]
    /\ probability = <<>>
    /\ design_water_level_index = 0
    /\ CALC_TYPE = 1
    /\ pc = "ws_start"
    /\ step = 0
    /\ consumption_summ = 0
    /\ consumption_check = 0
    /\ min_sector = 0
    /\ calc_sectors = <<>>
    /\ df = <<>>
    /\ n = 0
    /\ hist = <<>>
    /\ activation = <<>>
    /\ ws = NoWS
    /\ sectors_result = <<>>
    /\ first_run = NoRun

\* WaterSection(x, y, water_level, start_point=start_point)
Construct ==
    /\ pc = "ws_start"
    /\ ws' = WaterSection(x, y, water_level, ws_start_point, OVERFLOW)
    /\ pc' = "ws_done"
    /\ fatal' = IF ws'.status = "ok" THEN "" ELSE "level"
    /\ UNCHANGED <<x, y, sectors, dH, probability, OVERFLOW, CALC_TYPE, step,
                   water_level, consumption_summ, consumption_check,
                   min_sector, calc_sectors, df, n, hist, activation,
                   ws_start_point, levels_result, calc_args, calculation,
                   design_water_level_index, sectors_result, first_run>>

NextWS == Construct

SpecWS == InitWS /\ [][NextWS]_vars

---------------------------------------------------------------------------
(* Specification SpecCalc: one Calculation built directly from a roughness, *)
(* a slope, a depth and an area, under each value of config.CALC_TYPE.      *)

\* the depths tried (1e-5 m): 0, the floor of the average depth, 1 m, the
\* depths next to and at 3 m, and 4 m
CalcDepths == {0, 1, 100000, 299999, 300000, 300001, 400000}

\* the arguments tried: n (1e-3), i (promille), h, a (mm^2)
CalcArgs == [n : {30, 50}, i : {2, 3}, h : CalcDepths, a : {1000, 20000}]

InitCalc ==
    /\ calc_args \in CalcArgs
    /\ CALC_TYPE \in CalcTypes
    /\ pc = "calc_start"
    /\ calculation = NoCalc
    /\ fatal = ""
    /\ x = <<>>
    /\ y = <<>>
    /\ sectors = <<>>
    /\ dH = [kind |-> "num", value |-> 1]
    /\ probability = <<>>
    /\ design_water_level_index = 0
    /\ OVERFLOW = FALSE
    /\ step = 0
    /\ water_level = 0
    /\ consumption_summ = 0
    /\ consumption_check = 0
    /\ min_sector = 0
    /\ calc_sectors = <<>>
    /\ df = <<>>
    /\ n = 0
    /\ hist = <<>>
    /\ activation = <<>>
    /\ ws_start_point = <<>>
    /\ ws = NoWS
    /\ sectors_result = <<>>
    /\ first_run = NoRun
    /\ levels_result = <<>>

\* Calculation(n, i, h, a)
Calculate ==
    /\ pc = "calc_start"
    /\ calculation' = Calculation(calc_args.n, calc_args.i, calc_args.h,
                                  calc_args.a, CALC_TYPE)
    /\ pc' = "calc_done"
    /\ fatal' = IF calculation'.status = "ok" THEN "" ELSE "config"
    /\ UNCHANGED <<x, y, sectors, dH, probability, OVERFLOW, CALC_TYPE, step,
                   water_level, consumption_summ, consumption_check,
                   min_sector, calc_sectors, df, n, hist, activation,
                   ws_start_point, ws, levels_result, calc_args,
                   design_water_level_index, sectors_result, first_run>>

NextCalc == Calculate

SpecCalc == InitCalc /\ [][NextCalc]_vars

---------------------------------------------------------------------------
(* Properties.                                                              *)

IsSumma(r) == r.Uchastok = "Summa"

\* the rows of the table that belong to sectors
SectorRows(t) == {k \in 1..Len(t) : ~IsSumma(t[k])}

RECURSIVE SectorSumFrom(_, _, _, _)
SectorSumFrom(t, level, col, k) ==
    IF k > Len(t) THEN 0
    ELSE (IF ~IsSumma(t[k]) /\ t[k].UV = level THEN t[k][col] ELSE 0)
         + SectorSumFrom(t, level, col, k + 1)

\* the sum of a column over the sector rows of one level
SectorSum(t, level, col) == SectorSumFrom(t, level, col, 1)

\* the number of sector rows of one level
SectorCount(t, level) == Cardinality({k \in SectorRows(t) : t[k].UV = level})

\* the ridge between an active sector and its neighbour: the highest point of
\* the half of the active sector's profile that faces the neighbour
Ridge(active, neighbour) ==
    IF neighbour < active
    THEN SeqMax(chunk_list(CoordY(sectors[active + 1]))[1])
    ELSE SeqMax(chunk_list(CoordY(sectors[active + 1]))[2])

\* the largest target discharge of the probability entries
MaxTarget == SeqMax([k \in 1..Len(probability) |-> probability[k][2]])

\* the position of a sector in the order of evaluation of one level
EvalPos(sec) ==
    IF OVERFLOW THEN CHOOSE p \in 1..Len(calc_sectors) : calc_sectors[p] = sec
    ELSE sec

\* C1 (as amended): in overflow mode a neighbour sector appended to
\* calc_sectors at a level step is evaluated in that same step: its first row
\* in the table is at the level at which it was activated, and it has no row
\* at an earlier level.
C1_JoinsAtActivationLevel ==
    \A a \in 1..Len(activation) :
        /\ \E k \in 1..Len(hist) :
               /\ hist[k].sec = activation[a].sec
               /\ hist[k].n = activation[a].n
               /\ df[k].Uchastok = sectors[activation[a].sec + 1].name
               /\ df[k].UV = Round2(activation[a].wl)
        /\ \A k \in 1..Len(hist) :
               hist[k].sec = activation[a].sec => hist[k].n >= activation[a].n

\* a finished table in which a neighbour was activated at the second level
\* step or later and has its row at that level
C1_Witness ==
    /\ pc = "filled"
    /\ \E a \in 1..Len(activation) :
           /\ activation[a].n >= 1
           /\ \E k \in 1..Len(hist) :
                  hist[k].sec = activation[a].sec /\ hist[k].n = activation[a].n

\* C1 as stated: an activated neighbour has no row at the level at which it
\* was activated; its first row is at a later level step.
C1_JoinsAtNextLevel ==
    \A a \in 1..Len(activation) :
        \A k \in 1..Len(hist) :
            hist[k].sec = activation[a].sec => hist[k].n > activation[a].n

\* C2 (as amended): in overflow mode every row of a sector other than the
\* minimum-elevation sector was computed at a water level that had reached
\* the ridge of the adjacent sector that activated it; the level the row
\* carries is that water level rounded to the centimetre, so it is less than
\* half a centimetre below the ridge at the lowest.
C2_NoRowBelowRidgeWaterLevel ==
    OVERFLOW =>
        \A k \in 1..Len(hist) :
            (hist[k].sec >= 0 /\ hist[k].sec # min_sector) =>
                \E a \in 1..Len(activation) :
                    /\ activation[a].sec = hist[k].sec
                    /\ activation[a].by \in {hist[k].sec - 1, hist[k].sec + 1}
                    /\ activation[a].ridge
                           = Ridge(activation[a].by, activation[a].sec)
                    /\ hist[k].wl >= activation[a].ridge
                    /\ df[k].UV = Round2(hist[k].wl)
                    /\ df[k].UV + 5 > activation[a].ridge

\* a finished table with a row of a sector other than the minimum one at the
\* third level step or later
C2_Witness ==
    /\ OVERFLOW
    /\ pc = "filled"
    /\ \E k \in 1..Len(hist) :
           hist[k].sec >= 0 /\ hist[k].sec # min_sector /\ hist[k].n >= 2

\* C2 as stated: no row of a sector other than the minimum one carries a
\* level lower than the ridge that separates it from the active sectors.
C2_NoRowBelowRidge ==
    OVERFLOW =>
        \A k \in 1..Len(hist) :
            (hist[k].sec >= 0 /\ hist[k].sec # min_sector) =>
                \A a \in 1..Len(activation) :
                    activation[a].sec = hist[k].sec =>
                        df[k].UV >= activation[a].ridge

\* C3: in the finished table the aggregate row of every level has F, B and Q
\* equal to the sums of F, B and Q over the sector rows of that level.
C3_AggregateSums ==
    pc = "filled" =>
        \A k \in 1..Len(df) :
            IsSumma(df[k]) =>
                /\ df[k].F = SectorSum(df, df[k].UV, "F")
                /\ df[k].B = SectorSum(df, df[k].UV, "B")
                /\ df[k].Q = SectorSum(df, df[k].UV, "Q")

\* a finished table with a level of two or more sector rows and a positive
\* aggregate discharge
C3_Witness ==
    /\ pc = "filled"
    /\ \E k \in 1..Len(df) :
           IsSumma(df[k]) /\ SectorCount(df, df[k].UV) >= 2 /\ df[k].Q > 0

\* C4 (as amended): in the finished table the aggregate row of every level
\* with a positive aggregate F has V = Q / F, and with a positive aggregate B
\* has Hsr = F / B; where the aggregate F or B is zero (the initial level at
\* the profile minimum) the quotient is undefined and V or Hsr is 0.
C4_RatiosWhereDefined ==
    pc = "filled" =>
        \A k \in 1..Len(df) :
            IsSumma(df[k]) =>
                /\ df[k].F > 0 => df[k].V = (df[k].Q * 100) \div df[k].F
                /\ df[k].B > 0 => df[k].Hsr = (df[k].F * 100) \div df[k].B
                /\ df[k].F = 0 => df[k].V = 0
                /\ df[k].B = 0 => df[k].Hsr = 0

\* a finished table with a level of two or more sector rows whose aggregate
\* row has positive F, B and V
C4_Witness ==
    /\ pc = "filled"
    /\ \E k \in 1..Len(df) :
           /\ IsSumma(df[k])
           /\ SectorCount(df, df[k].UV) >= 2
           /\ df[k].F > 0 /\ df[k].B > 0 /\ df[k].V > 0

\* C4 as stated: the aggregate row of every level, the initial level
\* included, has V = Q / F and Hsr = F / B.
C4_RatiosEverywhere ==
    pc = "filled" =>
        \A k \in 1..Len(df) :
            IsSumma(df[k]) =>
                /\ df[k].V = Div(df[k].Q * 100, df[k].F)
                /\ df[k].Hsr = Div(df[k].F * 100, df[k].B)

\* C5 as stated: no two rows of the table share the key (level, sector name).
C5_UniqueKeys ==
    \A j, k \in 1..Len(df) :
        j < k => ~(df[j].UV = df[k].UV /\ df[j].Uchastok = df[k].Uchastok)

\* C6: the loop stops exactly at the first level whose aggregate discharge
\* is at least 1.2 times the largest target discharge: every level of the
\* table but the last has a smaller aggregate discharge, and once the loop
\* has ended the last level has reached it.
C6_StopsAtCeiling ==
    pc \in {"loop", "filled", "error"} =>
        /\ consumption_check * 10 = MaxTarget * 12
        /\ \A k \in 1..(Len(df) - 1) :
               IsSumma(df[k]) =>
                   SectorSum(df, df[k].UV, "Q") * 10 < MaxTarget * 12
        /\ pc \in {"filled", "error"} =>
               /\ IsSumma(df[Len(df)])
               /\ SectorSum(df, df[Len(df)].UV, "Q") * 10 >= MaxTarget * 12
        /\ pc = "filled" => df[Len(df)].Q * 10 >= MaxTarget * 12

\* a finished table of four or more levels, the largest target not the
\* first entry
C6_Witness ==
    /\ pc = "filled"
    /\ n >= 3
    /\ Len(probability) >= 2
    /\ MaxTarget > probability[1][2]

\* C7: the first row of the table is an aggregate row at the lowest elevation
\* of the profile with F, B, Hsr, Hmax, V, Q and Shezi all zero, in the
\* finished table as well.
C7_FirstRowZero ==
    pc \in {"loop", "filled", "error", "exit1", "exit2"} =>
        df[1] = Row("Summa", SeqMin(y), 0, 0, 0, 0, 0, 0, 0)

\* a finished table of three or more levels whose last aggregate row is not
\* zero
C7_Witness ==
    /\ pc = "filled"
    /\ n >= 2
    /\ df[Len(df)].Q > 0
    /\ df[1].Q = 0

\* C8: in the finished table the levels never descend from one row to the
\* next, every row after an aggregate row has a higher level (the aggregate
\* row is the last of its level and the levels are strictly ascending), and
\* the sector rows of one level are in the order of evaluation.
C8_RowOrder ==
    pc = "filled" =>
        \A j, k \in 1..Len(df) :
            j < k =>
                /\ df[j].UV <= df[k].UV
                /\ IsSumma(df[j]) => df[j].UV < df[k].UV
                /\ (df[j].UV = df[k].UV /\ ~IsSumma(df[k])) =>
                       EvalPos(hist[j].sec) < EvalPos(hist[k].sec)

\* a finished table with two levels of two or more sector rows each
C8_Witness ==
    /\ pc = "filled"
    /\ \E j, k \in 1..Len(df) :
           /\ j < k
           /\ IsSumma(df[j]) /\ IsSumma(df[k])
           /\ SectorCount(df, df[j].UV) >= 2
           /\ SectorCount(df, df[k].UV) >= 2

\* C9 as stated: whatever the level step of the input (a string, zero,
\* negative or positive), the step calculate() advances by is positive.
C9_StepPositive ==
    pc \in {"loop", "filled", "error", "exit1", "exit2"} => step > 0

\* C10: a WaterSection built at a level below the lowest point of its
\* polyline ends in sys.exit(1), whatever the polyline and the start point,
\* and leaves no wetted section.
C10_BelowMinExits ==
    (pc = "ws_done" /\ water_level < SeqMin(y)) =>
        /\ ws.status = "exit1"
        /\ ws.water_section_x = <<>>
        /\ ws.water_section_y = <<>>
        /\ ws.area = 0

\* a section built below the lowest point of a polyline that is not flat,
\* from a start point given by the caller
C10_Witness ==
    /\ pc = "ws_done"
    /\ water_level < SeqMin(y)
    /\ SeqMax(y) > SeqMin(y)
    /\ ws_start_point # <<>>
    /\ ws.status = "exit1"

---------------------------------------------------------------------------
(* Properties of WaterSection (specification SpecWS).                       *)

\* a WaterSection has been built from the default start point
BuiltDefault == pc = "ws_done" /\ ws_start_point = <<>>

\* the trapezoid at level 9 m, from the default start point
TrapezoidAt9 ==
    /\ BuiltDefault
    /\ x = Trapezoid.x
    /\ y = Trapezoid.y
    /\ water_level = 9000

\* C11: a WaterSection at a water level equal to the lowest elevation of the
\* polyline, from the default start point, is built without a fatal exit and
\* has area 0, width 0 and the fixed small value as average depth and as
\* hydraulic radius, whatever the polyline (flat lowest segment, lowest point
\* at an end vertex).
C11_AtMinZero ==
    (BuiltDefault /\ water_level = SeqMin(y)) =>
        /\ ws.status = "ok"
        /\ ws.area = 0
        /\ ws.width = 0
        /\ ws.average_depth = Epsilon
        /\ ws.r_hydraulic = Epsilon

\* the index (0-based) of the start vertex of boundary()
StartIndex ==
    IF ws_start_point = <<>> THEN PyIndex(y, SeqMin(y)) ELSE ws_start_point[1]

\* x is the linear interpolation at the level on the segment between the
\* vertices a and b (0-based); on a segment that lies in the water surface
\* every point of the segment is one
OnSegmentAtLevel(bx, a, b) ==
    LET ya == PyAt(y, a)
        yb == PyAt(y, b)
        xa == PyAt(x, a)
        xb == PyAt(x, b)
    IN  IF ya = yb THEN xa <= bx /\ bx <= xb
        ELSE (bx - xa) * (yb - ya) = (water_level - ya) * (xb - xa)

\* the segments (i - 1, i) at or left of the start vertex that the level
\* crosses downwards, and the segments (i, i + 1) at or right of it that the
\* level crosses upwards
LeftCrossings ==
    {i \in 1..StartIndex : PyAt(y, i - 1) >= water_level /\ water_level >= PyAt(y, i)}

RightCrossings ==
    {i \in StartIndex..(Len(y) - 2) :
        PyAt(y, i) <= water_level /\ water_level <= PyAt(y, i + 1)}

\* C12: for a polyline with non-decreasing x and a start vertex at or below
\* the water level, boundary() returns exactly one left and one right
\* boundary, both at the water level: the left one is the interpolation on the
\* first segment at or left of the start that the level crosses, or x[0] when
\* there is none; the right one is its mirror, or x[-1].  On the trapezoid at
\* level 9 the boundaries are x = 2.5 and x = 12.5 and the width is 10.
C12_Boundaries ==
    (pc = "ws_done" /\ PyAt(y, StartIndex) <= water_level) =>
        LET wb == boundary(x, y, water_level, ws_start_point)
        IN  /\ wb.exit = 0
            /\ Len(wb.bx) = 2
            /\ IF LeftCrossings = {} THEN wb.bx[1] = PyAt(x, 0)
               ELSE \E i \in LeftCrossings :
                        /\ \A j \in LeftCrossings : j <= i
                        /\ OnSegmentAtLevel(wb.bx[1], i - 1, i)
            /\ IF RightCrossings = {} THEN wb.bx[2] = PyAt(x, -1)
               ELSE \E i \in RightCrossings :
                        /\ \A j \in RightCrossings : j >= i
                        /\ OnSegmentAtLevel(wb.bx[2], i, i + 1)
            /\ ws.status = "ok"
            /\ ws.water_section_y[1] = water_level
            /\ ws.water_section_y[Len(ws.water_section_y)] = water_level
            /\ ws.width = wb.bx[2] - wb.bx[1]
            /\ TrapezoidAt9 => wb.bx = <<2500, 12500>> /\ ws.width = 10000

\* the trapezoid at level 9 m has been built, with a boundary inside a segment
\* on either side
C12_Witness ==
    /\ TrapezoidAt9
    /\ ws.status = "ok"
    /\ ws.water_section_x[1] = 2500
    /\ ws.width = 10000

\* C13 (as amended): on the trapezoid at level 9 the wetted polygon is
\* (2.5,9), (5,8), (10,8), (12.5,9); its area is 7.5 and the average depth is
\* 0.75.
C13_TrapezoidArea ==
    TrapezoidAt9 =>
        /\ ws.water_section_x = <<2500, 5000, 10000, 12500>>
        /\ ws.water_section_y = <<9000, 8000, 8000, 9000>>
        /\ ws.area = 7500000
        /\ ws.average_depth = 75000

\* the trapezoid at level 9 m has been built and has a positive area
C13_Witness == TrapezoidAt9 /\ ws.status = "ok" /\ ws.area > 0 /\ ws.width = 10000

\* C13 as stated: on the trapezoid at level 9 the area is 17.5 and the average
\* depth is 1.75.
C13_TrapezoidArea17 ==
    TrapezoidAt9 =>
        /\ ws.area = 17500000
        /\ ws.average_depth = 175000

\* the width of the water on the segment between the vertices k and k + 1
\* (1-based)
SegWet(k) ==
    LET a  == y[k]
        b  == y[k + 1]
        dx == x[k + 1] - x[k]
    IN  IF a <= water_level /\ b <= water_level THEN dx
        ELSE IF a >= water_level /\ b >= water_level THEN 0
        ELSE IF a < water_level THEN ((water_level - a) * dx) \div (b - a)
        ELSE ((water_level - b) * dx) \div (a - b)

\* the segments at which a body of water begins: a wet segment whose left
\* vertex is not under water
BodyStarts ==
    {k \in 1..(Len(y) - 1) :
        /\ SegWet(k) > 0
        /\ k = 1 \/ y[k] >= water_level}

\* the width of all the water of the polyline
TotalWetWidth == SeqSum([k \in 1..(Len(y) - 1) |-> SegWet(k)])

\* C14: when the water level leaves several disjoint bodies of water on the
\* polyline, the boundaries of every body are found and the WaterSection
\* reports the widths (areas, perimeters, hydraulic radii) summed over the
\* bodies.
C14_AllBodiesSummed ==
    (BuiltDefault /\ ws.status = "ok" /\ Cardinality(BodyStarts) >= 2) =>
        ws.width = TotalWetWidth

RECURSIVE SumDx(_, _)
SumDx(xs, k) == IF k >= Len(xs) THEN 0 ELSE xs[k + 1] - xs[k] + SumDx(xs, k + 1)

\* C15: the wet_perimeter of a WaterSection is the sum of the successive
\* horizontal differences along water_section_x, and r_hydraulic is area /
\* wet_perimeter when both are positive.
C15_WetPerimeter ==
    (pc = "ws_done" /\ ws.status = "ok") =>
        /\ ws.wet_perimeter = SumDx(ws.water_section_x, 1)
        /\ (ws.area > 0 /\ ws.wet_perimeter > 0) =>
               ws.r_hydraulic = (ws.area * 100) \div ws.wet_perimeter

\* C16: every WaterSection built has a positive average depth: area / width
\* when both are positive, the fixed small value 0.00001 otherwise.
C16_DepthPositive ==
    (pc = "ws_done" /\ ws.status = "ok") =>
        /\ ws.average_depth > 0
        /\ IF ws.area > 0 /\ ws.width > 0
           THEN ws.average_depth = (ws.area * 100) \div ws.width
           ELSE ws.average_depth = Epsilon

\* a WaterSection with no area has been built
C16_Witness == pc = "ws_done" /\ ws.status = "ok" /\ ws.area = 0 /\ ws.width > 0

\* C16, in calculate(): the average depth of every sector row of the table,
\* which is the depth given to Calculation, is positive (specification Spec).
C16_RowsDepthPositive == \A k \in SectorRows(df) : df[k].Hsr > 0

\* the elevations do not rise before the lowest point and do not fall after
\* it (a V or a U)
VShaped ==
    \E m \in 1..Len(y) :
        /\ \A k \in 1..(m - 1) : y[k] >= y[k + 1]
        /\ \A k \in m..(Len(y) - 1) : y[k] <= y[k + 1]

\* C23: on a V- or U-shaped polyline the area and the width of the
\* WaterSection built from the default start point do not decrease when the
\* water level rises from the lowest elevation upwards, also above one or
\* both end vertices.
C23_Monotone ==
    (BuiltDefault /\ VShaped /\ water_level >= SeqMin(y)) =>
        /\ ws.status = "ok"
        /\ \A level2 \in WSLevels([x |-> x, y |-> y]) :
               level2 >= water_level =>
                   LET ws2 == WaterSection(x, y, level2, <<>>, OVERFLOW)
                   IN  /\ ws2.status = "ok"
                       /\ ws2.area >= ws.area
                       /\ ws2.width >= ws.width

\* a section has been built on a V whose ends differ, at a level above the
\* lower end and below the higher one, and a higher level drowns both ends
C23_Witness ==
    /\ BuiltDefault
    /\ VShaped
    /\ ws.status = "ok"
    /\ ws.area > 0
    /\ \E level2 \in WSLevels([x |-> x, y |-> y]) :
           /\ level2 > water_level
           /\ level2 > y[1]
           /\ level2 > y[Len(y)]
           /\ WaterSection(x, y, level2, <<>>, OVERFLOW).area > ws.area

\* the indices (1-based) of the vertices of the polyline that lie between the
\* two boundaries of the section built
Between == {k \in 1..Len(x) : ws.water_section_x[1] <= x[k]
                              /\ x[k] <= ws.water_section_x[Len(ws.water_section_x)]}

\* the polygon of the water between the two boundaries: the left boundary at
\* the level, the bottom between the boundaries, the right boundary at the
\* level
BodyPolygon ==
    LET lo == CHOOSE k \in Between : \A j \in Between : k <= j
        hi == CHOOSE k \in Between : \A j \in Between : k >= j
        xl == ws.water_section_x[1]
        xr == ws.water_section_x[Len(ws.water_section_x)]
    IN  IF Between = {}
        THEN [x |-> <<xl, xr>>, y |-> <<water_level, water_level>>]
        ELSE [x |-> <<xl>> \o SubSeq(x, lo, hi) \o <<xr>>,
              y |-> <<water_level>> \o SubSeq(y, lo, hi) \o <<water_level>>]

\* C28: every vertex of the wetted polygon of a WaterSection lies within
\* [x_left, x_right], the polygon holds no bottom vertex outside the two
\* boundaries (a first vertex below the level but behind a dry rise is not
\* added), and the area is the area between the water surface and the bottom
\* between the two boundaries.
C28_PolygonWithinBoundaries ==
    (pc = "ws_done" /\ ws.status = "ok") =>
        /\ \A k \in 1..Len(ws.water_section_x) :
               /\ ws.water_section_x[1] <= ws.water_section_x[k]
               /\ ws.water_section_x[k]
                      <= ws.water_section_x[Len(ws.water_section_x)]
        /\ ws.area = poly_area(BodyPolygon.x, BodyPolygon.y)

---------------------------------------------------------------------------
(* Properties of Calculation (specification SpecCalc).                      *)

---------------------------------------------------------------------------
(* Properties of the fatal errors.                                          *)

\* the exit statuses the code uses for the errors of a class
StatusesOf(class) ==
    IF class = "level" THEN {ExitLevelBelowMin, ExitNoBoundary}
    ELSE IF class = "config" THEN {ExitCalcType, ExitMorfostvorCalcType}
    ELSE {ExitSectorCheck}

\* how the run, or the object built directly, ended
EndStatus ==
    IF pc = "ws_done" THEN ws.status
    ELSE IF pc = "calc_done" THEN calculation.status
    ELSE pc

\* C18: a run ended by a fatal error ends with a status that is not the
\* success status 0 and that no error of another class (invalid level,
\* configuration error, input-data error) uses.
C18_StatusPerClass ==
    fatal # "" =>
        /\ EndStatus # ExitPc(0)
        /\ \A class \in {"level", "config", "input"} \ {fatal} :
               \A st \in StatusesOf(class) : EndStatus # ExitPc(st)

---------------------------------------------------------------------------
(* Properties of calculate() on a defective list of sectors (SpecDefect).   *)

\* no sector's slice of the profile holds the lowest elevation of the profile
MinUncovered ==
    \A k \in 1..Len(sectors) : SeqMin(CoordY(sectors[k])) > SeqMin(y)

\* C19: when no sector's coordinate slice holds the lowest elevation of the
\* profile, calculate() does not go on to build a rating table, in either
\* mode: no sector row is computed and no table is filled.
C19_NoTableWithoutMinSector ==
    MinUncovered => (SectorRows(df) = {} /\ pc # "filled")

---------------------------------------------------------------------------
(* Properties of get_prob_table (specification Spec).                       *)

\* C20: for every row (H, Q) of the aggregate curve of a finished
\* calculate(), resolving the target discharge Q gives back the level H of
\* that row, and its V and F.
C20_RoundTrip ==
    pc = "filled" =>
        \A k \in 1..Len(p_table(df)) :
            resolve(p_table(df), p_table(df)[k].Q)
                = [H |-> p_table(df)[k].UV, V |-> p_table(df)[k].V,
                   F |-> p_table(df)[k].F]

---------------------------------------------------------------------------
(* Properties of get_sectors_result (specification Spec).                   *)

\* the design level: the level resolved for the starred probability entry
DesignLevel == levels_result[design_water_level_index + 1].H

\* the rows of the table computed for the sector at the list index sec
OwnRows(sec) == {k \in 1..Len(hist) : hist[k].sec = sec}

\* the rows computed for the sector do not bracket the design level
NotBracketed(sec) ==
    \/ OwnRows(sec) = {}
    \/ \A k \in OwnRows(sec) : df[k].UV > DesignLevel
    \/ \A k \in OwnRows(sec) : df[k].UV < DesignLevel

AllUndefined(r) ==
    /\ r.consumption = NaN
    /\ r.depth = NaN
    /\ r.speed = NaN
    /\ r.width = NaN
    /\ r.area = NaN

\* C21: after get_sectors_result, a sector whose own rows do not bracket the
\* design level (or that has no rows at all) has consumption, depth, speed,
\* width and area all undefined (NaN), in the result table and on the
\* ProfileSector object.
C21_UnbracketedUndefined ==
    pc = "filled" =>
        \A s \in 1..Len(sectors) :
            NotBracketed(s - 1) =>
                AllUndefined(sectors[s]) /\ AllUndefined(sectors_result[s])

---------------------------------------------------------------------------
(* Properties of two runs on the same inputs (specification SpecTwice).     *)

---------------------------------------------------------------------------
(* Properties of the level loop (specification Spec).                       *)

\* the level steps whose rows are in the table: the step number and the
\* water level of each aggregate row appended by the loop
StepsDone == {k \in 1..Len(hist) : hist[k].sec = -1 /\ hist[k].n >= 0}

\* the sector at the list index sec has a row at the level step of entry k
HasRowAt(sec, k) ==
    \E j \in 1..Len(hist) : hist[j].sec = sec /\ hist[j].n = hist[k].n

\* C24: when sectors are filled independently (overflow off), a sector has a
\* row at a computed level if and only if the lowest elevation of its own
\* coordinates is strictly below that level, whatever the other sectors are
\* and whatever rows earlier levels have.
C24_RowIffBelowLevel ==
    ~OVERFLOW =>
        \A k \in StepsDone :
            \A s \in 1..Len(sectors) :
                HasRowAt(s - 1, k) <=> SeqMin(CoordY(sectors[s])) < hist[k].wl

\* a finished table (overflow off) with a level at which one sector has a row
\* and another has none, and a later level at which that other has one
C24_Witness ==
    /\ ~OVERFLOW
    /\ pc = "filled"
    /\ \E j, k \in StepsDone :
           \E a, b \in 1..Len(sectors) :
               /\ hist[j].n < hist[k].n
               /\ HasRowAt(a - 1, j)
               /\ ~HasRowAt(b - 1, j)
               /\ HasRowAt(b - 1, k)

\* the vertex (0-based, within the sector) at which the boundary search of
\* the history entry started
StartVertex(entry) ==
    IF entry.start = <<>>
    THEN PyIndex(CoordY(sectors[entry.sec + 1]),
                 SeqMin(CoordY(sectors[entry.sec + 1])))
    ELSE entry.start[1]

\* C25: in overflow mode the boundary search of the minimum-elevation sector
\* starts at that sector's own lowest vertex, of every active sector left of
\* it at the sector's last vertex and of every active sector right of it at
\* the sector's first vertex; the wetted body of a neighbour sector reaches
\* the boundary it shares with the side the water came from.
C25_StartPoints ==
    OVERFLOW =>
        \A k \in 1..Len(hist) :
            hist[k].sec >= 0 =>
                LET sec == hist[k].sec
                    xs  == CoordX(sectors[sec + 1])
                    ys  == CoordY(sectors[sec + 1])
                IN  /\ sec = min_sector =>
                           /\ StartVertex(hist[k]) = PyIndex(ys, SeqMin(ys))
                           /\ PyAt(ys, StartVertex(hist[k])) = SeqMin(ys)
                    /\ sec < min_sector =>
                           /\ hist[k].start # <<>>
                           /\ StartVertex(hist[k]) = Len(ys) - 1
                           /\ hist[k].start[2] = PyAt(ys, -1)
                           /\ hist[k].x_right = PyAt(xs, -1)
                    /\ sec > min_sector =>
                           /\ hist[k].start # <<>>
                           /\ StartVertex(hist[k]) = 0
                           /\ hist[k].start[2] = PyAt(ys, 0)
                           /\ hist[k].x_left = PyAt(xs, 0)

\* a finished table (overflow on) with rows of a sector left of the minimum
\* one, whose default start vertex would not be the one given, and rows of a
\* sector right of it
C25_Witness ==
    /\ OVERFLOW
    /\ pc = "filled"
    /\ \E j, k \in 1..Len(hist) :
           /\ hist[j].sec >= 0 /\ hist[j].sec < min_sector
           /\ hist[k].sec > min_sector
           /\ LET ys == CoordY(sectors[hist[j].sec + 1])
              IN  PyIndex(ys, SeqMin(ys)) # Len(ys) - 1

\* the set of the active sectors
ActiveSet == {calc_sectors[k] : k \in 1..Len(calc_sectors)}

IsPrefix(s, t) == Len(s) <= Len(t) /\ SubSeq(t, 1, Len(s)) = s

\* C26: in overflow mode, once the loop has started, the active sectors are a
\* contiguous range of list indices within [0, number of sectors - 1] that
\* holds a sector with the lowest elevation of the profile, no index is in the
\* list twice, and the list only grows from one level step to the next.
C26_ActiveRange ==
    /\ [](OVERFLOW /\ pc \in {"loop", "filled", "error", "exit1", "exit2"} =>
            /\ calc_sectors # <<>>
            /\ Cardinality(ActiveSet) = Len(calc_sectors)
            /\ \A i \in ActiveSet : 0 <= i /\ i <= Len(sectors) - 1
            /\ \A i, j \in ActiveSet :
                   \A m \in i..j : m \in ActiveSet
            /\ min_sector \in ActiveSet
            /\ \E i \in ActiveSet :
                   SeqMin(CoordY(sectors[i + 1])) = SeqMin(y))
    /\ [][(OVERFLOW /\ pc = "loop") => IsPrefix(calc_sectors, calc_sectors')]_vars

\* a run (overflow on) in which the active range has grown to both sides of
\* the minimum sector, at two different level steps
C26_Witness ==
    /\ OVERFLOW
    /\ pc = "loop"
    /\ Len(calc_sectors) = 3
    /\ min_sector = 1
    /\ Len(activation) = 2
    /\ activation[1].n < activation[2].n

\* the while loop has ended: consumption_summ has reached the ceiling
LoopEnded == pc = "loop" /\ ~(consumption_summ < consumption_check)

\* C27: when the level loop has ended, every target discharge q of the
\* probability entries with 0 <= q <= the largest target lies between the
\* discharge of the initial row (0) and the aggregate discharge of the last
\* level; in the filled table it lies within [min Q, max Q] of the aggregate
\* curve, get_prob_table has a row for every entry, and no run ends in an
\* interpolation domain error.
C27_TargetsInRange ==
    /\ pc # "domain_error"
    /\ LoopEnded =>
           \A k \in 1..Len(probability) :
               (0 <= probability[k][2] /\ probability[k][2] <= MaxTarget) =>
                   /\ df[1].Q <= probability[k][2]
                   /\ probability[k][2] <= consumption_summ
    /\ pc = "filled" =>
           /\ Len(levels_result) = Len(probability)
           /\ \A k \in 1..Len(probability) :
                  /\ InRange(p_table(df), probability[k][2])
                  /\ levels_result[k].Q = probability[k][2]
                  /\ levels_result[k].H >= p_table(df)[1].UV
                  /\ levels_result[k].H <= p_table(df)[Len(p_table(df))].UV

\* a filled table of three or more level steps with a target discharge of 0
\* and a target that is the largest
C27_Witness ==
    /\ pc = "filled"
    /\ n >= 3
    /\ \E j, k \in 1..Len(probability) :
           /\ probability[j][2] = 0
           /\ probability[k][2] = MaxTarget
           /\ levels_result[j].H < levels_result[k].H

\* C29: in overflow mode, with the sectors read_xls builds (each sector
\* begins at the last vertex of the previous one), every WaterSection
\* calculate() asks for has its start vertex at or below the water level and
\* finds both boundaries: no run ends in the fatal exit of the invalid level
\* or of the boundary that was not found.
C29_NoFatalExit ==
    OVERFLOW =>
        /\ pc \notin {"exit1", "exit2"}
        /\ \A k \in 1..Len(hist) :
               hist[k].sec >= 0 =>
                   /\ PyAt(CoordY(sectors[hist[k].sec + 1]),
                           StartVertex(hist[k])) <= hist[k].wl
                   /\ hist[k].x_left <= hist[k].x_right

---------------------------------------------------------------------------
(* Termination of the level loop (specification SpecLive).                  *)

\* every step of calculate() is a step of Proceed that moves the position or
\* the pass counter
ProceedIsStep == [][NextLive => (Proceed /\ <<pc, n>>' # <<pc, n>>)]_vars

\* a positive level step, sectors with a positive roughness and a positive
\* slope, a positive discharge ceiling
TerminationInputs ==
    /\ StepOf(dH) > 0
    /\ \A k \in 1..Len(sectors) :
           sectors[k].roughness > 0 /\ sectors[k].slope > 0
    /\ MaxTarget > 0

\* C30: for a positive level step, positive roughness and slope and a
\* positive finite ceiling, the water level strictly increases at every pass
\* of the loop, and the loop of every run of calculate() that starts
\* eventually ends with the aggregate discharge at or above the ceiling, in
\* both modes.
C30_Terminates ==
    /\ [][(TerminationInputs /\ pc = "loop" /\ pc' = "loop") =>
              water_level' > water_level]_vars
    /\ (TerminationInputs /\ pc = "start") ~>
           (pc \notin {"start", "loop"} /\ consumption_summ >= consumption_check)

\* a run within the inputs of C30 has ended after three or more passes, the
\* last of them at a level above both ends of the profile
C30_Witness ==
    /\ TerminationInputs
    /\ pc = "filled"
    /\ n >= 3
    /\ water_level - step > y[1]
    /\ water_level - step > y[Len(y)]
    /\ consumption_summ >= consumption_check

===========================================================================
